---- MODULE Spec2Model ----
(***************************************************************************)
(* Model of the Mandelbrot engine (src/src/FractalEngine.ts, hosted by     *)
(* src/src/App.tsx; src/unnamed/part_000 is an older variant of the same   *)
(* class whose shader loop differs).                                       *)
(*                                                                         *)
(* Numbers.  The host-side doubles are modelled as small floats:           *)
(*   - zoom is counted in units of 2^-16, so MAX_ZOOM = 2.5 is 163840 and  *)
(*     MIN_ZOOM = 0.0003 is 20 (to the nearest unit); the result of a      *)
(*     multiplication is rounded to the nearest value with SigBits         *)
(*     significant bits (ties to even), which 2.5 itself is,               *)
(*     and a magnitude above FloatMax overflows to the infinity of its     *)
(*     sign, as IEEE arithmetic does at its own, larger, limits;           *)
(*   - times are in milliseconds; the clock is read modulo ClockWrap,      *)
(*     which keeps every inter-frame difference below ClockWrap exact;     *)
(*   - a value that may be non-finite and is never compared by order is a  *)
(*     pair <<kind, value>>, kind "finite", "Infinity", "-Infinity", "NaN".*)
(***************************************************************************)
EXTENDS Integers, Sequences, FiniteSets, TLC

\* ------------------------------------------------------------ constants
MAX_ZOOM == 163840
MIN_ZOOM == 20
\* zoom factor per millisecond, 0.0005 = 1 / ZoomRateDen
ZoomRateDen == 2000
\* uMaxIterations = floor(BaseIterations + zoomDepth * IterationSlope)
BaseIterations == 100
IterationSlope == 50
\* bailout radius b of the escape-time loop
Bailout == 256
\* bailout |z|^2 threshold of the older variant
LegacyBailoutSq == 4

\* --------------------------------------------------------------- bounds
\* significant bits of a modelled float, and its largest finite magnitude
SigBits == 3
FloatMax == 1000000
\* a resize notification carries at most MaxEntries entries
MaxEntries == 2
\* iteration budgets and sample points given to the shader loop
MaxBudget == 6
MaxCoord == 2

\* the inter-frame deltas tried (ms), and the clock readings they give
Deltas == {0, 1000, 2000, 3000}
ClockWrap == 1000 * Cardinality(Deltas)
ClockValues == {(1000 * k) % ClockWrap : k \in 0..(Cardinality(Deltas) - 1)}
NoTime == 0 - 1
NegInfinity == 0 - (FloatMax + 1)
PosInfinity == FloatMax + 1

\* contentRect sizes a resize entry may carry, and window.devicePixelRatio
Sizes == {<<800, 400>>, <<400, 0>>}
DevicePixelRatios == {1, 2}
NoSize == <<0 - 1, 0 - 1>>
\* the entry lists a notification may carry (never empty)
EntryLists == UNION {[1..n -> Sizes] : n \in 1..MaxEntries}

VARIABLES
    zoomingIn,        \* AnimationPhase: TRUE = ZoomingIn
    time,             \* FrameClock: NoTime (null) or the last clock reading
    uZoom,            \* uniform uZoom
    uMaxIterations,   \* uniform uMaxIterations, <<kind, value>>
    uColorAngle,      \* angle (10^-4 rad) each palette slot was last rotated by
    uAspect,          \* uniform uAspect, <<kind, numerator, denominator>>
    uStart,           \* uniform uStart, the centre (units of 10^-6)
    rendererSize,     \* last size given to renderer.setSize, or NoSize
    rendererPixelRatio, \* last value given to renderer.setPixelRatio, 0 = none
    observed,         \* elements the ResizeObserver observes
    debounced,        \* arguments of the pending debounced call, <<>> = none
    animationLoop,    \* TRUE while a callback is registered with the frame pump
    geometryDisposed, \* dispose() calls received by the mesh geometry
    materialDisposed, \* dispose() calls received by the mesh material
    rendererDisposed, \* dispose() calls received by the renderer
    appMounted,       \* App: the effect ran and its cleanup has not
    lastCall,         \* the handler that ran last
    \* one evaluation of the fragment shader's escape-time loop
    sVariant,         \* "current" (FractalEngine.ts) or "legacy" (part_000)
    sUv,              \* the sample point c = <<re, im>>
    sMax,             \* the iteration budget uMaxIterations read by the loop
    sZ,               \* z = <<re, im>>
    sN,               \* n (current) / iteration (legacy)
    sI,               \* the loop index i
    sBroke,           \* Break() was taken
    sPc,              \* "idle", "loop", "exit" or "done"
    sResult,          \* <<inSet, value>> once done
    sUpdates,         \* history: assignments to z made so far
    sFirstEscape      \* history: index n of the first z_n over the bailout, 0 = none

engineVars == <<zoomingIn, time, uZoom, uMaxIterations, uColorAngle, uAspect,
                uStart, rendererSize, rendererPixelRatio, observed, debounced,
                animationLoop, geometryDisposed, materialDisposed,
                rendererDisposed, appMounted, lastCall>>

shaderVars == <<sVariant, sUv, sMax, sZ, sN, sI, sBroke, sPc, sResult,
                sUpdates, sFirstEscape>>

vars == <<engineVars, shaderVars>>

\* ------------------------------------------------------------- helpers
Abs(x) == IF x < 0 THEN -x ELSE x

\* round(1000 * 2^(k/50)) for k = 0..49: the mantissa thresholds of log2
Pow2Frac == <<1000, 1014, 1028, 1042, 1057, 1072, 1087, 1102, 1117, 1133,
              1149, 1165, 1181, 1197, 1214, 1231, 1248, 1266, 1283, 1301,
              1320, 1338, 1357, 1376, 1395, 1414, 1434, 1454, 1474, 1495,
              1516, 1537, 1558, 1580, 1602, 1625, 1647, 1670, 1693, 1717,
              1741, 1765, 1790, 1815, 1840, 1866, 1892, 1919, 1945, 1972>>

\* largest e >= 0 with d * 2^e <= n   (n >= d > 0)
RECURSIVE ExpUp(_, _)
ExpUp(n, d) == IF 2 * d <= n THEN 1 + ExpUp(n, 2 * d) ELSE 0

\* smallest j >= 1 with d <= n * 2^j   (0 < n < d)
RECURSIVE ExpDown(_, _)
ExpDown(n, d) == IF d <= 2 * n THEN 1 ELSE 1 + ExpDown(2 * n, d)

RECURSIVE Pow2(_)
Pow2(e) == IF e = 0 THEN 1 ELSE 2 * Pow2(e - 1)

\* largest k in 0..49 with 2^(k/50) <= n/d   (d <= n < 2d)
FracIndex(n, d) ==
    CHOOSE k \in 0..49 :
        /\ Pow2Frac[k + 1] * d <= 1000 * n
        /\ \A j \in (k + 1)..49 : Pow2Frac[j + 1] * d > 1000 * n

\* floor(IterationSlope * log2(n / d)) for integers n, d > 0
SlopeLog2(n, d) ==
    IF n >= d
    THEN LET e == ExpUp(n, d)
         IN  IterationSlope * e + FracIndex(n, d * Pow2(e))
    ELSE LET j == ExpDown(n, d)
         IN  FracIndex(n * Pow2(j), d) - IterationSlope * j

RECURSIVE GCD(_, _)
GCD(a, b) == IF b = 0 THEN a ELSE GCD(b, a % b)

\* the nearest integer to q / d, ties to the even one   (q >= 0, d > 0)
RoundQuot(q, d) ==
    LET m == q \div d
        r == q % d
    IN  IF 2 * r > d \/ (2 * r = d /\ m % 2 = 1) THEN m + 1 ELSE m

\* the spacing of the floats around q / d: the largest power of two s with
\* s * 2^(SigBits-1) <= q / d, and 1 below that   (q >= 0, d > 0)
RECURSIVE Spacing(_, _, _)
Spacing(q, d, s) ==
    IF 2 * s * Pow2(SigBits - 1) * d <= q THEN Spacing(q, d, 2 * s) ELSE s

\* n / d as a float: rounded to SigBits significant bits, or infinite
RoundFloat(n, d) ==
    LET q == Abs(n)
        s == Spacing(q, d, 1)
        v == RoundQuot(q, d * s) * s
    IN  IF v > FloatMax THEN (IF n < 0 THEN NegInfinity ELSE PosInfinity)
        ELSE IF n < 0 THEN 0 - v ELSE v

\* Math.floor(100 + Math.log2(2.5 / zoom) * 50)
MaxIterationsFor(zoom) ==
    IF zoom = 0 THEN <<"Infinity", 0>>
    ELSE IF zoom = NegInfinity THEN <<"-Infinity", 0>>
    ELSE IF zoom < 0 THEN <<"NaN", 0>>
    ELSE <<"finite", BaseIterations + SlopeLog2(MAX_ZOOM, zoom)>>

\* the phase flip, evaluated against the previous zoom
NextPhase(zoom, phase) ==
    IF zoom <= MIN_ZOOM THEN FALSE
    ELSE IF zoom >= MAX_ZOOM THEN TRUE
    ELSE phase

\* zoom * (1 - delta * 0.0005 * (zoomingIn ? 1 : -1))
ZoomUpdate(zoom, delta, phase) ==
    LET num == ZoomRateDen - delta * (IF phase THEN 1 ELSE -1)
        g   == GCD(Abs(num), ZoomRateDen)
    IN  IF zoom = NegInfinity
        THEN (IF num > 0 THEN NegInfinity ELSE PosInfinity)
        ELSE RoundFloat(zoom * (num \div g), ZoomRateDen \div g)

\* currentTime * rate_i, rate_i = 0.0002 .. 0.0006
ColorAngles(currentTime) == [i \in 0..4 |-> currentTime * (i + 2)]

\* width / height
Ratio(width, height) ==
    IF height = 0
    THEN (IF width = 0 THEN <<"NaN", 0, 0>> ELSE <<"Infinity", 0, 0>>)
    ELSE LET g == GCD(width, height)
         IN  <<"finite", width \div g, height \div g>>

\* the scene graph built by the constructor: what each object carries
SceneObjects == <<[geometry |-> FALSE, material |-> FALSE],
                  [geometry |-> TRUE, material |-> TRUE]>>

CountWith(field) ==
    Cardinality({k \in 1..Len(SceneObjects) : SceneObjects[k][field]})

\* ----------------------------------------------------------------- Init
\* the state the constructor leaves, called from App's effect
EngineInit ==
    /\ zoomingIn = TRUE
    /\ time = NoTime
    /\ uZoom = MAX_ZOOM
    /\ uMaxIterations = <<"finite", 100>>
    /\ uColorAngle = [i \in 0..4 |-> 0]
    /\ uAspect = <<"finite", 1, 1>>
    /\ uStart = <<0 - 743644, 131826>>
    /\ rendererSize = NoSize
    /\ rendererPixelRatio = 0
    /\ observed = {"canvasContainer"}
    /\ debounced = <<>>
    /\ animationLoop = TRUE
    /\ geometryDisposed = 0
    /\ materialDisposed = 0
    /\ rendererDisposed = 0
    /\ appMounted = TRUE
    /\ lastCall = "constructor"

\* no shader evaluation in progress
ShaderIdle ==
    /\ sVariant = "current"
    /\ sUv = <<0, 0>>
    /\ sMax = 0
    /\ sZ = <<0, 0>>
    /\ sN = 0
    /\ sI = 0
    /\ sBroke = FALSE
    /\ sPc = "idle"
    /\ sResult = <<FALSE, <<0, 0>>>>
    /\ sUpdates = 0
    /\ sFirstEscape = 0

Init == EngineInit /\ ShaderIdle

\* -------------------------------------------------------------- actions
\* renderLoop with the zoom update taken before the phase flip
renderLoopUpdateFirst(currentTime) ==
    LET delta == IF time = NoTime THEN 0
                 ELSE (currentTime - time + ClockWrap) % ClockWrap
        zoom  == ZoomUpdate(uZoom, delta, zoomingIn)
    IN  /\ animationLoop
        /\ time' = currentTime
        /\ zoomingIn' = NextPhase(uZoom, zoomingIn)
        /\ uZoom' = zoom
        /\ uColorAngle' = ColorAngles(currentTime)
        /\ uMaxIterations' = MaxIterationsFor(zoom)
        /\ lastCall' = "renderLoop"
        /\ UNCHANGED <<uAspect, uStart, rendererSize, rendererPixelRatio,
                       observed, debounced, animationLoop, geometryDisposed,
                       materialDisposed, rendererDisposed, appMounted>>
        /\ UNCHANGED shaderVars

\* the frame pump invokes the registered callback
renderLoop(currentTime) ==
    LET delta == IF time = NoTime THEN 0
                 ELSE (currentTime - time + ClockWrap) % ClockWrap
        phase == NextPhase(uZoom, zoomingIn)
        zoom  == ZoomUpdate(uZoom, delta, phase)
    IN  /\ animationLoop
        /\ time' = currentTime
        /\ zoomingIn' = phase
        /\ uZoom' = zoom
        /\ uColorAngle' = ColorAngles(currentTime)
        /\ uMaxIterations' = MaxIterationsFor(zoom)
        /\ lastCall' = "renderLoop"
        /\ UNCHANGED <<uAspect, uStart, rendererSize, rendererPixelRatio,
                       observed, debounced, animationLoop, geometryDisposed,
                       materialDisposed, rendererDisposed, appMounted>>
        /\ UNCHANGED shaderVars

\* the ResizeObserver reports the observed container: the debounced wrapper
\* keeps the latest arguments and restarts its 100 ms timer
debouncedResizeHandler(entries) ==
    /\ "canvasContainer" \in observed
    /\ debounced' = entries
    /\ lastCall' = "debouncedResizeHandler"
    /\ UNCHANGED <<zoomingIn, time, uZoom, uMaxIterations, uColorAngle, uAspect,
                   uStart, rendererSize, rendererPixelRatio, observed,
                   animationLoop, geometryDisposed, materialDisposed,
                   rendererDisposed, appMounted>>
    /\ UNCHANGED shaderVars

\* ResizeFold with the aspect taken from the first entry only
RECURSIVE ResizeFoldFirstAspect(_, _)
ResizeFoldFirstAspect(entries, acc) ==
    IF entries = <<>> THEN acc
    ELSE LET width  == Head(entries)[1]
             height == Head(entries)[2]
             rest   == ResizeFoldFirstAspect(Tail(entries), acc)
         IN  [size |-> IF Tail(entries) = <<>> THEN <<width, height>> ELSE rest.size,
              aspect |-> Ratio(width, height)]

\* the size and aspect the loop over the entries leaves: those of the last
RECURSIVE ResizeFold(_, _)
ResizeFold(entries, acc) ==
    IF entries = <<>> THEN acc
    ELSE LET width  == Head(entries)[1]
             height == Head(entries)[2]
         IN  ResizeFold(Tail(entries),
                        [size |-> <<width, height>>,
                         aspect |-> Ratio(width, height)])

\* the debounce timer fires: onResize runs with the kept arguments
onResize(pixelRatio) ==
    LET after == ResizeFold(debounced, [size |-> rendererSize, aspect |-> uAspect])
    IN  /\ debounced # <<>>
        /\ rendererSize' = after.size
        /\ uAspect' = after.aspect
        /\ rendererPixelRatio' = pixelRatio
        /\ debounced' = <<>>
        /\ lastCall' = "onResize"
        /\ UNCHANGED <<zoomingIn, time, uZoom, uMaxIterations, uColorAngle,
                       uStart, observed, animationLoop, geometryDisposed,
                       materialDisposed, rendererDisposed, appMounted>>
        /\ UNCHANGED shaderVars

\* App's effect cleanup calls engine.dispose()
dispose ==
    /\ appMounted
    /\ appMounted' = FALSE
    /\ observed' = observed \ {"canvas"}
    /\ geometryDisposed' = geometryDisposed + CountWith("geometry")
    /\ materialDisposed' = materialDisposed + CountWith("material")
    /\ rendererDisposed' = rendererDisposed + 1
    /\ lastCall' = "dispose"
    /\ UNCHANGED <<zoomingIn, time, uZoom, uMaxIterations, uColorAngle, uAspect,
                   uStart, rendererSize, rendererPixelRatio, debounced,
                   animationLoop>>
    /\ UNCHANGED shaderVars

Next ==
    \/ \E now \in ClockValues : renderLoop(now)
    \/ \E entries \in EntryLists : debouncedResizeHandler(entries)
    \/ \E pixelRatio \in DevicePixelRatios : onResize(pixelRatio)
    \/ dispose

Spec == Init /\ [][Next]_vars

\* the animation alone: no resize arrives and App stays mounted
FrameNext == \E now \in ClockValues : renderLoop(now)

\* the frame pump keeps invoking the callback while it is registered, and
\* the clock advances between infinitely many of the frames
FairSpec ==
    /\ Init
    /\ [][FrameNext]_vars
    /\ WF_vars(\E now \in ClockValues : now # time /\ renderLoop(now))

\* ------------------------------------------------------- the shader loop
\* z^2 + c, (a+bi)^2 = (a^2 - b^2, 2ab)
SquareAdd(z, c) == <<z[1] * z[1] - z[2] * z[2] + c[1], 2 * z[1] * z[2] + c[2]>>

\* dot(z, z) > limit; a component over 30000 decides without the squares
DotGreaterThan(z, limit) ==
    \/ Abs(z[1]) > 30000
    \/ Abs(z[2]) > 30000
    \/ z[1] * z[1] + z[2] * z[2] > limit

BailoutSq(variant) ==
    IF variant = "current" THEN Bailout * Bailout ELSE LegacyBailoutSq

\* values of the smoothed count, a + b * L with L = log2(log2(dot(z, z))),
\* held as <<a, b>>
Const(a) == <<a, 0>>
LogLogDot == <<0, 1>>
FAdd(x, y) == <<x[1] + y[1], x[2] + y[2]>>
FSub(x, y) == <<x[1] - y[1], x[2] - y[2]>>

\* select(inSet, 0, n.sub(log2(log2(dot(z, z))).add(4.0)))
SmoothedCount(inSet, n) ==
    IF inSet THEN Const(0) ELSE FSub(Const(n), FAdd(LogLogDot, Const(4)))

\* n >= uMaxIterations - 1
InteriorTest(n, maxIterations) == n >= maxIterations - 1

ShaderInit ==
    /\ EngineInit
    /\ sVariant \in {"current", "legacy"}
    /\ sUv \in (0 - MaxCoord..MaxCoord) \X (0 - MaxCoord..MaxCoord)
    /\ sMax \in 1..MaxBudget
    /\ sZ = <<0, 0>>
    /\ sN = 0
    /\ sI = 0
    /\ sBroke = FALSE
    /\ sPc = "loop"
    /\ sResult = <<FALSE, <<0, 0>>>>
    /\ sUpdates = 0
    /\ sFirstEscape = 0

\* iterateMandelbrot with the loop condition '<=' in place of '<'
iterateMandelbrotInclusive ==
    LET z == SquareAdd(sZ, sUv)
        escaped == DotGreaterThan(z, BailoutSq("current"))
    IN  /\ sPc = "loop"
        /\ sVariant = "current"
        /\ sI <= sMax
        /\ sZ' = z
        /\ sUpdates' = sUpdates + 1
        /\ sFirstEscape' = IF sFirstEscape = 0 /\ escaped
                           THEN sUpdates + 1 ELSE sFirstEscape
        /\ sBroke' = escaped
        /\ sPc' = IF escaped THEN "exit" ELSE "loop"
        /\ sN' = IF escaped THEN sN ELSE sN + 1
        /\ sI' = IF escaped THEN sI ELSE sI + 1
        /\ UNCHANGED <<sVariant, sUv, sMax, sResult>>
        /\ UNCHANGED engineVars

\* one pass through the body of iterateMandelbrot's Loop
iterateMandelbrot ==
    LET z == SquareAdd(sZ, sUv)
        escaped == DotGreaterThan(z, BailoutSq("current"))
    IN  /\ sPc = "loop"
        /\ sVariant = "current"
        /\ sI < sMax
        /\ sZ' = z
        /\ sUpdates' = sUpdates + 1
        /\ sFirstEscape' = IF sFirstEscape = 0 /\ escaped
                           THEN sUpdates + 1 ELSE sFirstEscape
        /\ sBroke' = escaped
        /\ sPc' = IF escaped THEN "exit" ELSE "loop"
        /\ sN' = IF escaped THEN sN ELSE sN + 1
        /\ sI' = IF escaped THEN sI ELSE sI + 1
        /\ UNCHANGED <<sVariant, sUv, sMax, sResult>>
        /\ UNCHANGED engineVars

\* one pass through the body of the older variant's Loop
mandelBrot ==
    LET escaped == DotGreaterThan(sZ, BailoutSq("legacy"))
        z == SquareAdd(sZ, sUv)
    IN  /\ sPc = "loop"
        /\ sVariant = "legacy"
        /\ sI < sMax
        /\ sN' = sI
        /\ sBroke' = escaped
        /\ sPc' = IF escaped THEN "exit" ELSE "loop"
        /\ sZ' = IF escaped THEN sZ ELSE z
        /\ sUpdates' = IF escaped THEN sUpdates ELSE sUpdates + 1
        /\ sFirstEscape' =
               IF ~escaped /\ sFirstEscape = 0
                  /\ DotGreaterThan(z, BailoutSq("legacy"))
               THEN sUpdates + 1 ELSE sFirstEscape
        /\ sI' = IF escaped THEN sI ELSE sI + 1
        /\ UNCHANGED <<sVariant, sUv, sMax, sResult>>
        /\ UNCHANGED engineVars

\* the loop condition i < uMaxIterations fails
loopEnd ==
    /\ sPc = "loop"
    /\ sI >= sMax
    /\ sPc' = "exit"
    /\ UNCHANGED <<sVariant, sUv, sMax, sZ, sN, sI, sBroke, sResult, sUpdates,
                   sFirstEscape>>
    /\ UNCHANGED engineVars

\* after the loop: the interior test and the value handed to the colouring
classify ==
    LET inSet == InteriorTest(sN, sMax)
    IN  /\ sPc = "exit"
        /\ sResult' = <<inSet, IF sVariant = "current"
                               THEN SmoothedCount(inSet, sN)
                               ELSE Const(sN)>>
        /\ sPc' = "done"
        /\ UNCHANGED <<sVariant, sUv, sMax, sZ, sN, sI, sBroke, sUpdates,
                       sFirstEscape>>
        /\ UNCHANGED engineVars

ShaderNext ==
    \/ iterateMandelbrot
    \/ mandelBrot
    \/ loopEnd
    \/ classify

ShaderSpec == ShaderInit /\ [][ShaderNext]_vars

\* ---------------------------------------------------------------- claims
Finite(x) == x # NegInfinity /\ x # PosInfinity

\* C1: every zoom value renderLoop writes lies in [MIN_ZOOM, MAX_ZOOM].
C1_ZoomWithinBounds == MIN_ZOOM <= uZoom /\ uZoom <= MAX_ZOOM

\* C2: a frame changes the phase from ZoomingIn to ZoomingOut exactly when
\* the previous zoom is <= MIN_ZOOM, and from ZoomingOut to ZoomingIn exactly
\* when it is >= MAX_ZOOM; no other step changes the phase; and the zoom
\* update of a frame already runs in the direction of the phase as flipped:
\* it multiplies by 1 - delta/2000 when zooming in and by 1 + delta/2000
\* when zooming out, delta being the clock difference of the frame.
C2_FlipThenUpdate ==
    [][ /\ lastCall' # "renderLoop" => zoomingIn' = zoomingIn
        /\ lastCall' = "renderLoop" =>
             LET delta == IF time = NoTime THEN 0
                          ELSE (time' - time + ClockWrap) % ClockWrap
                 factor == ZoomRateDen + delta * (IF zoomingIn' THEN 0 - 1 ELSE 1)
                 g == GCD(Abs(factor), ZoomRateDen)
             IN  /\ (zoomingIn /\ ~zoomingIn') <=> (zoomingIn /\ uZoom <= MIN_ZOOM)
                 /\ (~zoomingIn /\ zoomingIn') <=> (~zoomingIn /\ uZoom >= MAX_ZOOM)
                 /\ Finite(uZoom) =>
                      uZoom' = RoundFloat(uZoom * (factor \div g), ZoomRateDen \div g)
                 /\ zoomingIn' => uZoom' <= uZoom
                 /\ (~zoomingIn' /\ uZoom >= 0) => uZoom' >= uZoom
      ]_vars

\* C2's case: zooming out is under way after the flip at the bottom
C2_Witness ==
    /\ lastCall = "renderLoop"
    /\ ~zoomingIn
    /\ uZoom > MIN_ZOOM
    /\ uZoom < MAX_ZOOM

\* C3: with frames of positive delta arriving forever, both phases occur
\* infinitely often.
C3_ReversesForever == ([]<>zoomingIn) /\ ([]<>(~zoomingIn))

\* C4: the zoom dividing 2.5 in the iteration budget is strictly positive
\* and uMaxIterations is a finite integer.
C4_PositiveDivisor == uZoom > 0 /\ uMaxIterations[1] = "finite"

\* C5 as stated: at most maxIterations updates, and strictly fewer whenever
\* a z over the 256 bailout was reached.
C5_StrictlyFewer ==
    /\ sUpdates <= sMax
    /\ (sPc \in {"exit", "done"} /\ DotGreaterThan(sZ, Bailout * Bailout))
         => sUpdates < sMax

\* C5 as amended: at most maxIterations updates; the update that first
\* gives a z over the bailout is the last one made, so the loop then made
\* exactly that many steps (maxIterations itself when the escape comes on
\* the last permitted step); without an escape it makes maxIterations steps.
C5_StopsAtFirstEscape ==
    /\ sUpdates <= sMax
    /\ sFirstEscape # 0 => sUpdates = sFirstEscape
    /\ (sPc \in {"exit", "done"} /\ sFirstEscape = 0) => sUpdates = sMax

\* C5's case: the escape came on the last permitted step
C5_Witness ==
    /\ sPc = "done"
    /\ sVariant = "current"
    /\ sBroke
    /\ sUpdates = sMax
    /\ sMax > 1

\* C6: a point gets the interior treatment exactly when its loop never
\* took the bailout Break (stated for iterateMandelbrot of FractalEngine.ts).
C6_InteriorIffNoBreak ==
    (sPc = "done" /\ sVariant = "current") => (sResult[1] <=> ~sBroke)

C8_AspectFollowsResize ==
    /\ [](rendererSize # NoSize =>
            uAspect = Ratio(rendererSize[1], rendererSize[2]))
    /\ [][ /\ lastCall' = "renderLoop" =>
                UNCHANGED <<uAspect, uStart, rendererSize>>
           /\ lastCall' = "onResize" =>
                /\ UNCHANGED <<uZoom, zoomingIn, uMaxIterations, time>>
                /\ debounced # <<>> =>
                     /\ rendererSize' = debounced[Len(debounced)]
                     /\ uAspect' = Ratio(debounced[Len(debounced)][1],
                                         debounced[Len(debounced)][2])
           /\ uAspect' # uAspect => lastCall' = "onResize"
         ]_vars

\* C8's case: a frame ran after onResize processed an 800 x 400 entry,
\* with the next notification already pending
C8_Witness ==
    /\ lastCall = "renderLoop"
    /\ time # NoTime
    /\ rendererSize = <<800, 400>>
    /\ uAspect = <<"finite", 2, 1>>
    /\ rendererPixelRatio # 0
    /\ debounced # <<>>

\* C9: for an escaped point the value handed to the colouring is
\* n - log2(log2(dot(z, z))) + 4.
C9_SmoothedCount ==
    (sPc = "done" /\ sVariant = "current" /\ sBroke /\ ~sResult[1])
        => sResult[2] = FAdd(FSub(Const(sN), LogLogDot), Const(4))

\* C10: once dispose() has run, the container is no longer observed, no
\* debounced call is pending and the resize handler does not run.
C10_NoResizeAfterDispose ==
    ~appMounted =>
        /\ "canvasContainer" \notin observed
        /\ debounced = <<>>
        /\ lastCall \notin {"debouncedResizeHandler", "onResize"}
====
